---- MODULE Spec2Model ----
(***************************************************************************)
(* Model of storage_migration.py: migration of Cloudinary resources to an  *)
(* S3 bucket.  run() configures both providers, then                       *)
(* migrate_cloudinary_resources() lists the resources of every requested   *)
(* type page by page, maps every URL to a target key, asks the operator to *)
(* confirm the first batch and hands every mapping of a batch to a thread  *)
(* pool that runs migrate_data() on it.                                    *)
(*                                                                         *)
(* Python strings are sequences of one-character strings.                  *)
(***************************************************************************)
EXTENDS Integers, Sequences, FiniteSets, TLC

(***************************************************************************)
(* Bounds of the model.                                                    *)
(***************************************************************************)
\* largest number of resources the provider puts in one page
MaxPageLen == 2
\* largest number of pages the provider returns for one resource type
MaxPages == 2
\* largest --max_worker value tried
MaxWorker == 2
\* number of distinct resource URLs the provider holds
NumUrls == 2
\* batch_index is counted up to this value and stays there: the code only
\* tests batch_index == 1 and prints the number
BatchIndexCap == 2

(***************************************************************************)
(* String helpers (Python str methods).                                    *)
(***************************************************************************)
Whitespace == {" ", "\t", "\n", "\r"}
Digits == {"0", "1", "2", "3", "4", "5", "6", "7", "8", "9"}
Letters == {"a", "b", "c", "d", "e", "f", "g", "h", "i", "j", "k", "l", "m",
            "n", "o", "p", "q", "r", "s", "t", "u", "v", "w", "x", "y", "z",
            "A", "B", "C", "D", "E", "F", "G", "H", "I", "J", "K", "L", "M",
            "N", "O", "P", "Q", "R", "S", "T", "U", "V", "W", "X", "Y", "Z"}
\* the characters the regex engine counts as word characters (\w)
WordChars == Letters \cup Digits \cup {"_"}

\* s[i:] with a 1-based i
Tail_(s, i) == SubSeq(s, i, Len(s))

\* p occurs in s starting at position i
OccursAt(s, p, i) ==
    /\ i >= 1
    /\ i + Len(p) - 1 <= Len(s)
    /\ SubSeq(s, i, i + Len(p) - 1) = p

\* Python `sub in s`
Contains(sub, s) == \E i \in 1..(Len(s) + 1) : OccursAt(s, sub, i)

\* str.lower() on the letters the model uses
LowerChar(c) ==
    CASE c = "Y" -> "y"
      [] c = "E" -> "e"
      [] c = "S" -> "s"
      [] c = "N" -> "n"
      [] c = "O" -> "o"
      [] OTHER -> c
Lower(s) == [i \in 1..Len(s) |-> LowerChar(s[i])]

RECURSIVE StripLeft(_, _)
StripLeft(s, chars) ==
    IF s # <<>> /\ s[1] \in chars THEN StripLeft(Tail(s), chars) ELSE s

RECURSIVE StripRight(_, _)
StripRight(s, chars) ==
    IF s # <<>> /\ s[Len(s)] \in chars
    THEN StripRight(SubSeq(s, 1, Len(s) - 1), chars)
    ELSE s

\* str.strip() and str.strip(chars)
Strip(s, chars) == StripRight(StripLeft(s, chars), chars)

\* position of the first occurrence of character c in s at or after i, 0 if none
RECURSIVE FindChar(_, _, _)
FindChar(s, c, i) ==
    IF i > Len(s) THEN 0
    ELSE IF s[i] = c THEN i
    ELSE FindChar(s, c, i + 1)

\* str.split(c): the list of the pieces between the occurrences of c
RECURSIVE Split(_, _)
Split(s, c) ==
    LET k == FindChar(s, c, 1)
    IN  IF k = 0 THEN <<s>>
        ELSE <<SubSeq(s, 1, k - 1)>> \o Split(Tail_(s, k + 1), c)

\* c.join(parts)
RECURSIVE Join(_, _)
Join(parts, c) ==
    IF parts = <<>> THEN <<>>
    ELSE IF Len(parts) = 1 THEN parts[1]
    ELSE parts[1] \o <<c>> \o Join(Tail(parts), c)

(***************************************************************************)
(* Python values whose type decides what a method call does.               *)
(***************************************************************************)
PyStr(s) == [type |-> "str", val |-> s]
PyList(l) == [type |-> "list", val |-> l]

\* the permutations of a finite set, as sequences: the orders list(set(..)) may give
Orderings(S) ==
    {f \in [1..Cardinality(S) -> S] : \A i, j \in 1..Cardinality(S) : f[i] = f[j] => i = j}

\* a filter that does not trim the folder names
filter_urls_without_strip(source_buckets, url_list) ==
    IF source_buckets.type # "str"
    THEN [raised |-> "AttributeError", urls |-> {}]
    ELSE LET sbs == Split(source_buckets.val, ",")
             filtered_urls ==
                 {url_list[u] : u \in {v \in 1..Len(url_list) :
                     \E k \in 1..Len(sbs) : Contains(sbs[k], url_list[v])}}
         IN  [raised |-> "none", urls |-> filtered_urls]

(***************************************************************************)
(* filter_urls_base_on_folder_names(source_buckets, url_list)              *)
(* source_buckets is a Python value: only a str has .split.  The result is *)
(* the exception raised, or the set of URLs put in the list that is        *)
(* returned (list(set(..)) keeps each URL once, in any order).             *)
(***************************************************************************)
filter_urls_base_on_folder_names(source_buckets, url_list) ==
    IF source_buckets.type # "str"
    THEN [raised |-> "AttributeError", urls |-> {}]
    ELSE LET sbs == Split(source_buckets.val, ",")
             filtered_urls ==
                 {url_list[u] : u \in {v \in 1..Len(url_list) :
                     \E k \in 1..Len(sbs) : Contains(Strip(sbs[k], Whitespace), url_list[v])}}
         IN  [raised |-> "none", urls |-> filtered_urls]

(***************************************************************************)
(* source_to_target_mapper(url_list, keep_same_structure, parent_path)     *)
(***************************************************************************)
RsTypeWords == {<<"i", "m", "a", "g", "e">>, <<"v", "i", "d", "e", "o">>, <<"r", "a", "w">>}
UploadV == <<"/", "u", "p", "l", "o", "a", "d", "/", "v">>

\* \b at the gap before position i of s
WordBoundary(s, i) ==
    LET before == i > 1 /\ i - 1 <= Len(s) /\ s[i - 1] \in WordChars
        after == i >= 1 /\ i <= Len(s) /\ s[i] \in WordChars
    IN  before # after

\* number of digits of s in a row from position i on
RECURSIVE DigitRun(_, _)
DigitRun(s, i) ==
    IF i <= Len(s) /\ s[i] \in Digits THEN 1 + DigitRun(s, i + 1) ELSE 0

\* (\bimage\b|\bvideo\b|\braw\b)/upload/v[0-9]+/ matched at position i of s:
\* the position that follows the match, 0 when there is no match at i
MatchEnd(s, i) ==
    LET ws == {w \in RsTypeWords :
                  /\ OccursAt(s, w, i)
                  /\ WordBoundary(s, i)
                  /\ WordBoundary(s, i + Len(w))
                  /\ OccursAt(s, UploadV, i + Len(w))}
    IN  IF ws = {} THEN 0
        ELSE LET w == CHOOSE x \in ws : TRUE
                 d == i + Len(w) + Len(UploadV)
                 n == DigitRun(s, d)
             IN  IF n >= 1 /\ d + n <= Len(s) /\ s[d + n] = "/" THEN d + n + 1 ELSE 0

\* re.split(pattern, s)[-1]: the matches are found left to right, each search
\* starting where the previous match ended; the last piece follows the last match
RECURSIVE SplitLast(_, _, _)
SplitLast(s, pos, lastEnd) ==
    IF pos > Len(s) THEN Tail_(s, lastEnd)
    ELSE IF MatchEnd(s, pos) # 0 THEN SplitLast(s, MatchEnd(s, pos), MatchEnd(s, pos))
    ELSE SplitLast(s, pos + 1, lastEnd)

\* the target key of one URL
TargetKey(url, keep_same_structure, parent_path) ==
    LET parts == Split(url, "/")
        url_split == IF ~keep_same_structure
                     THEN SplitLast(url, 1, 1)
                     ELSE Join(IF Len(parts) > 3 THEN Tail_(parts, 4) ELSE <<>>, "/")
    IN  IF parent_path # <<>>
        THEN Strip(parent_path, {"/"}) \o <<"/">> \o url_split
        ELSE url_split

source_to_target_mapper(url_list, keep_same_structure, parent_path) ==
    [i \in 1..Len(url_list) |->
        <<url_list[i], TargetKey(url_list[i], keep_same_structure, parent_path)>>]


(***************************************************************************)
(* The inputs of a run: the command line, the operator and the provider.   *)
(***************************************************************************)
\* the resources of the account: "h://c/raw/upload/v1/a", ".../b", ...
UrlBase == <<"h", ":", "/", "/", "c", "/", "r", "a", "w", "/", "u", "p", "l", "o", "a", "d", "/", "v", "1", "/">>
PublicIds == <<"a", "b", "c", "d", "e", "f">>
UrlOf(k) == UrlBase \o <<PublicIds[k]>>
URLS == {UrlOf(k) : k \in 1..NumUrls}

\* --resource_types: "raw", "image,raw" and the default "image,raw,video"
ResourceTypesArgs ==
    { <<"r", "a", "w">>,
      <<"i", "m", "a", "g", "e", ",", "r", "a", "w">>,
      <<"i", "m", "a", "g", "e", ",", "r", "a", "w", ",", "v", "i", "d", "e", "o">> }

\* --source_buckets: the default "" and "/a"
SourceBucketsArgs == { <<>>, <<"/", "a">> }

\* what the operator types at the confirmation prompt: "yes", "YES", "no"
Answers == { <<"y", "e", "s">>, <<"Y", "E", "S">>, <<"n", "o">> }
Yes == <<"y", "e", "s">>

\* the pages the listing API may return: any number of resources (a resource
\* is listed once in a page), in any order, with or without a cursor
RECURSIVE SeqsUpTo(_, _)
SeqsUpTo(S, n) ==
    IF n = 0 THEN {<<>>}
    ELSE SeqsUpTo(S, n - 1) \cup
         {Append(q, x) : q \in {r \in SeqsUpTo(S, n - 1) : Len(r) = n - 1}, x \in S}

NoRepeat(q) == \A i, j \in 1..Len(q) : q[i] = q[j] => i = j

Pages == [urls : {q \in SeqsUpTo(URLS, MaxPageLen) : NoRepeat(q)}, next_cursor : BOOLEAN]
NoPage == [urls |-> <<>>, next_cursor |-> FALSE]

VARIABLES
    ret,            \* the value returned by a function called on its own
    args,           \* the parsed command line (module-level args)
    answer,         \* what the operator answers when prompted
    pc,             \* where run() / migrate_cloudinary_resources() stands
    exc,            \* the error that ended the run, "none" otherwise
    s3made,         \* boto3.resource(..) has been called
    typeIdx,        \* position of the for loop in resource_types
    pageNo,         \* pages listed so far for the current type
    resources,      \* the page last returned by cloudinary.api.resources
    batch_index,
    prompts,        \* number of input(..) prompts issued
    declined,       \* the operator answered something else than yes
    tasks,          \* the futures of the current batch, in submission order
    progress,
    pbar_n,         \* tqdm's counter n
    future,         \* the loop variable of the as_completed loop
    failed_count,
    results,
    printed,        \* the lines printed under "Following resources failed:"
    pending         \* per URL: times listed minus times submitted to the executor

vars == <<ret, args, answer, pc, exc, s3made, typeIdx, pageNo, resources, batch_index,
          prompts, declined, tasks, progress, pbar_n, future, failed_count,
          results, printed, pending>>

\* resource_types.split(",") (line 34)
rs_types == Split(args.resource_types, ",")

Unset == [set |-> FALSE, err |-> FALSE, resp |-> <<>>]

Init ==
    /\ ret = <<>>
    /\ args \in [resource_types : ResourceTypesArgs,
                 source_buckets : SourceBucketsArgs,
                 keep_cloud_name_in_path : {FALSE},
                 target_parent_path : {<<>>},
                 resuming_migration : BOOLEAN,
                 max_worker : 0..MaxWorker]
    /\ answer \in Answers
    /\ pc = "config"
    /\ exc = "none"
    /\ s3made = FALSE
    /\ typeIdx = 0
    /\ pageNo = 0
    /\ resources = NoPage
    /\ batch_index = 0
    /\ prompts = 0
    /\ declined = FALSE
    /\ tasks = <<>>
    /\ progress = 0
    /\ pbar_n = 0
    /\ future = Unset
    /\ failed_count = 0
    /\ results = <<>>
    /\ printed = <<>>
    /\ pending = [u \in URLS |-> 0]


(***************************************************************************)
(* run(args)                                                               *)
(***************************************************************************)
\* a run() that reports the error of set_cloudinary_config and goes on
AfterCloudinaryConfigNoReturn(err) == "s3"

\* lines 178-180: an error of set_cloudinary_config makes run() return
AfterCloudinaryConfig(err) == IF err THEN "done" ELSE "s3"

\* lines 188-190: an error of create_s3_resource_client makes run() return
AfterS3Client(err) == IF err THEN "done" ELSE "migrate"

\* lines 172-180: set_cloudinary_config reports (err, msg)
RunCloudinaryConfig ==
    /\ pc = "config"
    /\ \E err \in BOOLEAN :
        /\ pc' = AfterCloudinaryConfig(err)
        /\ exc' = IF err THEN "CloudinaryConfigError" ELSE "none"
    /\ UNCHANGED <<ret, args, answer, s3made, typeIdx, pageNo, resources, batch_index,
                   prompts, declined, tasks, progress, pbar_n, future, failed_count,
                   results, printed, pending>>

\* lines 182-190: create_s3_resource_client calls boto3.resource and reports (err, s3)
RunS3Client ==
    /\ pc = "s3"
    /\ s3made' = TRUE
    /\ \E err \in BOOLEAN :
        /\ pc' = AfterS3Client(err)
        /\ exc' = IF err THEN "S3ClientError" ELSE exc
    /\ UNCHANGED <<ret, args, answer, typeIdx, pageNo, resources, batch_index,
                   prompts, declined, tasks, progress, pbar_n, future, failed_count,
                   results, printed, pending>>

(***************************************************************************)
(* migrate_cloudinary_resources(resource_types, s3)                        *)
(***************************************************************************)
\* number of times u occurs in the sequence q
Count(q, u) == Cardinality({i \in 1..Len(q) : q[i] = u})

\* a handler placed inside the for loop: the run goes on with the next type
ExceptTargetNextType == "for"

\* where an exception raised inside the try block (lines 33-102) leaves the run:
\* the handler of lines 104-106 returns
ExceptTarget == "done"

Raise(e) ==
    /\ exc' = e
    /\ pc' = ExceptTarget

\* lines 33-41: the splits, the session and the pool; ThreadPoolExecutor
\* rejects max_workers <= 0 with a ValueError
MigrateStart ==
    /\ pc = "migrate"
    /\ IF args.max_worker <= 0
       THEN Raise("ValueError")
       ELSE pc' = "for" /\ exc' = exc
    /\ UNCHANGED <<ret, args, answer, s3made, typeIdx, pageNo, resources, batch_index,
                   prompts, declined, tasks, progress, pbar_n, future, failed_count,
                   results, printed, pending>>

\* cloudinary.api.resources(..): raises, or returns a page; the provider has
\* at most MaxPages pages per type, so its page number MaxPages has no cursor
Listing(no) ==
    \/ /\ Raise("ListingError")
       /\ UNCHANGED <<resources, pending>>
    \/ \E page \in Pages :
        /\ no >= MaxPages => ~page.next_cursor
        /\ resources' = page
        /\ pending' = [u \in URLS |-> pending[u] + Count(page.urls, u)]
        /\ pc' = "while"
        /\ exc' = exc

\* lines 43-46: the next resource type and its first page; the end of the for
\* loop ends the function
ForType ==
    /\ pc = "for"
    /\ IF typeIdx < Len(rs_types)
       THEN /\ typeIdx' = typeIdx + 1
            /\ pageNo' = 1
            /\ Listing(1)
       ELSE /\ pc' = "done"
            /\ UNCHANGED <<exc, typeIdx, pageNo, resources, pending>>
    /\ UNCHANGED <<ret, args, answer, s3made, batch_index, prompts, declined, tasks,
                   progress, pbar_n, future, failed_count, results, printed>>


\* line 48: batch_index += 1
NextBatchIndex == IF batch_index < BatchIndexCap THEN batch_index + 1 ELSE batch_index

\* a future just submitted for migrate_data(data, ..)
NewTask(data) ==
    [data |-> data, st |-> "queued", failed |-> FALSE, resp |-> "none",
     probes |-> 0, found |-> FALSE, fetches |-> 0, body |-> "none", puts |-> 0,
     yielded |-> FALSE]

\* a submission that leaves out the last mapping of the list
SubmitAllButLast(mapper_list) ==
    [i \in 1..(Len(mapper_list) - 1) |-> NewTask(mapper_list[i])]

\* line 77: every mapping of the list is submitted to the executor
SubmitAll(mapper_list) == [i \in 1..Len(mapper_list) |-> NewTask(mapper_list[i])]

\* lines 66-67: the break leaves the while loop of the current resource type
AfterDecline == "for"

\* a test of the counter before its increment: never true at line 59
IsFirstBatchOffByOne(bi) == bi = 0

\* line 59: batch_index == 1
IsFirstBatch(bi) == bi = 1

\* lines 47-77, for a page that holds resources: filter, map, on batch 1 show
\* the sample and prompt, then submit the batch
BatchStart(current_batch) ==
    LET mapper_list == source_to_target_mapper(current_batch,
                           args.keep_cloud_name_in_path, args.target_parent_path)
    IN  /\ batch_index' = NextBatchIndex
        /\ prompts' = IF IsFirstBatch(batch_index') THEN prompts + 1 ELSE prompts
        /\ IF IsFirstBatch(batch_index') /\ Lower(answer) # Yes
           THEN /\ declined' = TRUE
                /\ pc' = AfterDecline
                /\ UNCHANGED <<tasks, progress, pbar_n, failed_count, results,
                               printed, pending>>
           ELSE /\ declined' = declined
                /\ progress' = 0
                /\ pbar_n' = 0
                /\ failed_count' = 0
                /\ results' = <<>>
                /\ printed' = <<>>
                /\ tasks' = SubmitAll(mapper_list)
                /\ pending' = [u \in URLS |->
                                  pending[u] - Cardinality({i \in 1..Len(tasks') :
                                                               tasks'[i].data[1] = u})]
                /\ pc' = "wait"
        /\ exc' = exc

\* lines 47-77: the test of the while loop and the start of a batch
WhileTest ==
    /\ pc = "while"
    /\ IF resources.urls = <<>>
       THEN /\ pc' = "for"
            /\ UNCHANGED <<exc, batch_index, prompts, declined, tasks, progress,
                           pbar_n, failed_count, results, printed, pending>>
       ELSE IF args.source_buckets # <<>>
       THEN LET f == filter_urls_base_on_folder_names(
                         PyList(Split(args.source_buckets, ",")), resources.urls)
            IN  IF f.raised # "none"
                THEN /\ Raise(f.raised)
                     /\ batch_index' = NextBatchIndex
                     /\ UNCHANGED <<prompts, declined, tasks, progress, pbar_n,
                                    failed_count, results, printed, pending>>
                ELSE \E current_batch \in Orderings(f.urls) : BatchStart(current_batch)
       ELSE BatchStart(resources.urls)
    /\ UNCHANGED <<ret, args, answer, s3made, typeIdx, pageNo, resources, future>>

(***************************************************************************)
(* The thread pool and migrate_data(data, s3_client, s3_bucket_name,       *)
(* session), run by a pool thread for the future i of the batch.           *)
(***************************************************************************)
Running(ts) == {i \in 1..Len(ts) : ts[i].st \in {"head", "get", "put"}}

\* a pool that starts a thread for every work item
PoolUnbounded(ts, max_workers) == TRUE

\* a pool that keeps one thread fewer than max_workers
PoolOneWorkerShort(ts, max_workers) == Cardinality(Running(ts)) < max_workers - 1

\* a pool thread is free to take the next work item: the pool never has more
\* than max_workers threads (line 41)
PoolHasIdleWorker(ts, max_workers) == Cardinality(Running(ts)) < max_workers

\* the work queue is first in, first out
HeadOfQueue(ts, i) ==
    /\ ts[i].st = "queued"
    /\ \A j \in 1..(i - 1) : ts[j].st # "queued"

orchVars == <<ret, args, answer, pc, exc, s3made, typeIdx, pageNo, resources, batch_index,
              prompts, declined, progress, pbar_n, future, failed_count,
              results, printed, pending>>

\* a pool thread starts migrate_data (lines 139-142)
WorkerStart(i) ==
    /\ HeadOfQueue(tasks, i)
    /\ PoolHasIdleWorker(tasks, args.max_worker)
    /\ tasks' = [tasks EXCEPT ![i].st = IF args.resuming_migration THEN "head" ELSE "get"]
    /\ UNCHANGED orchVars

\* a probe whose result is not used: the worker goes on to fetch
AfterHeadNoSkip(t, found) == [t EXCEPT !.st = "get"]

\* lines 152-153: an object found at the key ends the call with (False, data)
AfterHead(t, found) ==
    IF found
    THEN [t EXCEPT !.st = "done", !.failed = FALSE, !.resp = "data"]
    ELSE [t EXCEPT !.st = "get"]

\* lines 144-153: head_object returns the metadata or raises
WorkerHead(i) ==
    /\ i \in 1..Len(tasks)
    /\ tasks[i].st = "head"
    /\ \E found \in BOOLEAN :
        tasks' = [tasks EXCEPT ![i] =
                     AfterHead([@ EXCEPT !.probes = @ + 1, !.found = found], found)]
    /\ UNCHANGED orchVars

\* a failure that cancels the futures still waiting in the queue
WorkerFailCancelsQueued(ts, i) ==
    [j \in 1..Len(ts) |->
        IF j = i \/ ts[j].st = "queued"
        THEN [ts[j] EXCEPT !.st = "done", !.failed = TRUE, !.resp = "data"]
        ELSE ts[j]]

\* a failure after which the worker fetches again
WorkerFailRetries(ts, i) == [ts EXCEPT ![i].st = "get"]

\* lines 157-158 and 166-167: the except clause returns (True, data); the other
\* futures of the batch are left alone
WorkerFail(ts, i) ==
    [ts EXCEPT ![i].st = "done", ![i].failed = TRUE, ![i].resp = "data"]

\* lines 155-158: session.get returns a response (of any HTTP status) or raises
WorkerGet(i) ==
    /\ i \in 1..Len(tasks)
    /\ tasks[i].st = "get"
    /\ \E o \in {"ok", "http_error", "raises"} :
        LET ts == [tasks EXCEPT ![i].fetches = @ + 1, ![i].body = o]
        IN  tasks' = IF o = "raises"
                     THEN WorkerFail(ts, i)
                     ELSE [ts EXCEPT ![i].st = "put"]
    /\ UNCHANGED orchVars

\* lines 160-168: put_object returns its response or raises
WorkerPut(i) ==
    /\ i \in 1..Len(tasks)
    /\ tasks[i].st = "put"
    /\ \E o \in {"ok", "raises"} :
        LET ts == [tasks EXCEPT ![i].puts = @ + 1]
        IN  tasks' = IF o = "raises"
                     THEN WorkerFail(ts, i)
                     ELSE [ts EXCEPT ![i].st = "done", ![i].failed = FALSE,
                                     ![i].resp = "put_resp"]
    /\ UNCHANGED orchVars


(***************************************************************************)
(* The end of a batch (lines 78-102).                                      *)
(***************************************************************************)
\* a wait that ends with the first future handed out
AnyCompleted(ts) == \E i \in 1..Len(ts) : ts[i].yielded

\* as_completed has handed out every future of the batch: the for loop of
\* lines 78-80 ends only then
AllCompleted(ts) == \A i \in 1..Len(ts) : ts[i].yielded

\* lines 78-80: as_completed yields a finished future, in any order
Yield(i) ==
    /\ pc = "wait"
    /\ i \in 1..Len(tasks)
    /\ tasks[i].st = "done"
    /\ ~tasks[i].yielded
    /\ tasks' = [tasks EXCEPT ![i].yielded = TRUE]
    /\ progress' = progress + 1
    /\ pbar_n' = pbar_n + progress'
    /\ future' = [set |-> TRUE, err |-> tasks[i].failed,
                  resp |-> IF tasks[i].resp = "data" THEN tasks[i].data ELSE <<>>]
    /\ UNCHANGED <<ret, args, answer, pc, exc, s3made, typeIdx, pageNo, resources,
                   batch_index, prompts, declined, failed_count, results, printed,
                   pending>>

\* a batch with failures that ends the function
AfterBatchStopsOnFailure(failed) == IF failed > 0 THEN "done" ELSE "tallied"

\* lines 92-98: whatever the failure count, control goes on to the cursor test
AfterBatch(failed) == "tallied"

\* lines 81-96, after the loop: the result of the future the loop variable is
\* left bound to is inspected, and the failures collected are printed
Tally ==
    /\ pc = "wait"
    /\ AllCompleted(tasks)
    /\ IF ~future.set
       THEN /\ Raise("NameError")
            /\ UNCHANGED <<failed_count, results, printed>>
       ELSE /\ failed_count' = IF future.err THEN failed_count + 1 ELSE failed_count
            /\ results' = IF future.err THEN Append(results, future.resp) ELSE results
            /\ printed' = IF failed_count' > 0
                          THEN SelectSeq(results', LAMBDA r : r[1] # <<>>)
                          ELSE <<>>
            /\ pc' = AfterBatch(failed_count')
            /\ exc' = exc
    /\ UNCHANGED <<ret, args, answer, s3made, typeIdx, pageNo, resources, batch_index,
                   prompts, declined, tasks, progress, pbar_n, future, pending>>

\* line 99: "next_cursor" in resources
HasNextCursor(res) == res.next_cursor

\* lines 98-102: the next page of the type, or the end of its while loop
NextPage ==
    /\ pc = "tallied"
    /\ IF HasNextCursor(resources)
       THEN /\ pageNo' = pageNo + 1
            /\ Listing(pageNo + 1)
       ELSE /\ pc' = "for"
            /\ UNCHANGED <<exc, pageNo, resources, pending>>
    /\ UNCHANGED <<ret, args, answer, s3made, typeIdx, batch_index, prompts, declined,
                   tasks, progress, pbar_n, future, failed_count, results, printed>>

Next ==
    \/ RunCloudinaryConfig
    \/ RunS3Client
    \/ MigrateStart
    \/ ForType
    \/ WhileTest
    \/ \E i \in 1..Len(tasks) : WorkerStart(i)
    \/ \E i \in 1..Len(tasks) : WorkerHead(i)
    \/ \E i \in 1..Len(tasks) : WorkerGet(i)
    \/ \E i \in 1..Len(tasks) : WorkerPut(i)
    \/ \E i \in 1..Len(tasks) : Yield(i)
    \/ Tally
    \/ NextPage

Spec == Init /\ [][Next]_vars


(***************************************************************************)
(* Properties.                                                             *)
(***************************************************************************)
\* the operator's answer is a confirmation (line 66)
Confirms == Lower(answer) = Yes
NoFilter == args.source_buckets = <<>>
Failed(ts) == {i \in 1..Len(ts) : ts[i].failed}
Unfinished(ts) == {i \in 1..Len(ts) : ts[i].st # "done"}

\* C1: once the operator has answered the prompt of the first batch with
\* something else than yes, nothing is submitted to the executor and no
\* Transfer Worker makes a step for the rest of the run, whatever the list of
\* resource types.
C1_NoTransferAfterDecline == [][declined => tasks' = tasks]_vars

\* C2: at the end of every batch the failure count equals the number of
\* mappings of the batch whose worker returned failed=true, and the source URL
\* of each of them is in the printed failure list.
C2_TallyCoversFailures ==
    pc = "tallied" =>
        /\ failed_count = Cardinality(Failed(tasks))
        /\ \A i \in Failed(tasks) :
              \E k \in 1..Len(printed) : printed[k][1] = tasks[i].data[1]


\* C3 (as stated): the operator confirms, there is no folder filter and no
\* listing call fails.  When the loop over a type's pages has ended, the last
\* page returned carried no continuation cursor, and every URL of every page
\* returned has been submitted to the executor exactly once.
C3_FollowsEveryCursor ==
    (pc \in {"for", "done"} /\ typeIdx >= 1 /\ exc = "none" /\ Confirms /\ NoFilter) =>
        /\ ~resources.next_cursor
        /\ \A u \in URLS : pending[u] = 0

\* C3 (amended): under the same conditions, when the loop over a type's pages
\* has ended, the last page returned carried no continuation cursor or held
\* no resources, and every URL of every page returned has been submitted to
\* the executor exactly once.
C3_FollowsCursorOfNonEmptyPages ==
    (pc \in {"for", "done"} /\ typeIdx >= 1 /\ exc = "none" /\ Confirms /\ NoFilter) =>
        /\ ~resources.next_cursor \/ resources.urls = <<>>
        /\ \A u \in URLS : pending[u] = 0

\* a confirmed run without filter has ended after following a cursor to a
\* second page and migrating it
C3_Witness ==
    /\ pc = "done" /\ exc = "none" /\ Confirms /\ NoFilter
    /\ pageNo = 2 /\ Len(tasks) = MaxPageLen /\ ~resources.next_cursor
    /\ resources.urls # <<>>

\* migrate_data has run for the future: it probed or fetched
Attempted(t) == t.probes + t.fetches >= 1

\* C4: at the end of a batch every mapping of the batch has had its worker
\* run to a result, whatever subset of the workers failed.
C4_AllAttempted ==
    pc = "tallied" => \A i \in 1..Len(tasks) : tasks[i].st = "done" /\ Attempted(tasks[i])

\* the first mapping of a batch failed on its fetch and the second one was
\* fetched and uploaded
C4_Witness ==
    /\ pc = "tallied" /\ Len(tasks) >= 2
    /\ tasks[1].failed /\ tasks[1].puts = 0
    /\ ~tasks[2].failed /\ tasks[2].puts = 1

\* C5: with resuming enabled, a worker whose existence probe found an object
\* has made no fetch and no upload call, is finished and returned failed=false.
C5_SkipExisting ==
    \A i \in 1..Len(tasks) :
        (args.resuming_migration /\ tasks[i].found) =>
            /\ tasks[i].fetches = 0
            /\ tasks[i].puts = 0
            /\ tasks[i].st = "done"
            /\ ~tasks[i].failed

\* a worker found the object and its result has been collected
C5_Witness ==
    \E i \in 1..Len(tasks) :
        args.resuming_migration /\ tasks[i].found /\ tasks[i].probes = 1 /\ tasks[i].yielded

\* the URL contains one of the folders of --source_buckets
MatchesFolder(u) ==
    LET sbs == Split(args.source_buckets, ",")
    IN  \E k \in 1..Len(sbs) : Contains(Strip(sbs[k], Whitespace), u)

\* C6: with a non-empty folder list and an operator who confirms, every batch
\* holds exactly the URLs of its page that contain one of the folders, each
\* once, and at the end of the run every listed URL that contains one of the
\* folders has been submitted.
C6_FilterSubmitsMatching ==
    (~NoFilter /\ Confirms) =>
        /\ pc \in {"wait", "tallied"} =>
              /\ {tasks[i].data[1] : i \in 1..Len(tasks)} =
                     {resources.urls[j] : j \in {n \in 1..Len(resources.urls) :
                                                    MatchesFolder(resources.urls[n])}}
              /\ \A i, j \in 1..Len(tasks) : tasks[i].data[1] = tasks[j].data[1] => i = j
        /\ (pc = "done" /\ exc \notin {"CloudinaryConfigError", "S3ClientError",
                                      "ValueError", "ListingError"}) =>
              \A u \in URLS : MatchesFolder(u) => pending[u] = 0

\* C7: while a worker of the current batch has not completed, the orchestrator
\* stays in the wait of that batch: it issues no listing call and starts no
\* other batch, within a resource type and across types.
C7_Barrier ==
    [][Unfinished(tasks) # {} =>
          /\ pc = "wait" /\ pc' = "wait"
          /\ typeIdx' = typeIdx /\ pageNo' = pageNo
          /\ Len(tasks') = Len(tasks)]_vars

\* in a batch of a later resource type one result has been collected while
\* another worker is still running
C7_Witness ==
    /\ pc = "wait" /\ typeIdx >= 2
    /\ \E i, j \in 1..Len(tasks) : tasks[i].yielded /\ j \in Running(tasks)

\* C8: the number of workers running at the same time is at most max_worker.
C8_PoolBound == Cardinality(Running(tasks)) <= args.max_worker

\* the pool is full and a mapping of the batch waits in the queue
C8_Witness ==
    /\ args.max_worker >= 1
    /\ Cardinality(Running(tasks)) = args.max_worker
    /\ \E i \in 1..Len(tasks) : tasks[i].st = "queued"

\* C9: after an error of the source configuration or of the construction of
\* the destination client the run has ended without a listing call, a prompt
\* or a worker; after an error of the source configuration the destination
\* client has not been constructed.
C9_ConfigErrorEndsRun ==
    /\ exc \in {"CloudinaryConfigError", "S3ClientError"} =>
          /\ pc = "done"
          /\ typeIdx = 0 /\ pageNo = 0 /\ prompts = 0 /\ tasks = <<>>
    /\ exc = "CloudinaryConfigError" => ~s3made

\* the run has ended on an error of the source configuration
C9_Witness == pc = "done" /\ exc = "CloudinaryConfigError" /\ ~s3made

\* C10: after an error of a listing call the run issues no listing call, no
\* prompt and no worker call any more, and what was migrated before stays.
C10_ListingErrorHalts ==
    /\ [](exc = "ListingError" => pc = "done")
    /\ [][exc = "ListingError" =>
            UNCHANGED <<pc, typeIdx, pageNo, prompts, batch_index, tasks, pending>>]_vars

\* the listing of a second page failed after the first batch was migrated,
\* with resource types left to do
C10_Witness ==
    /\ exc = "ListingError" /\ pc = "done"
    /\ pageNo = 2 /\ tasks # <<>> /\ AllCompleted(tasks)
    /\ typeIdx < Len(rs_types)


(***************************************************************************)
(* The URL Mapper and the Folder Filter called on their own: the call is   *)
(* set up in args and resources, the value returned is left in ret.        *)
(***************************************************************************)
\* longest URL list handed to source_to_target_mapper
MaxMapLen == 2
\* longest URL list handed to filter_urls_base_on_folder_names
MaxFilterLen == 3

\* URLs the mapper is tried on:
\*   "h://c/raw/upload/v1/a"                an uploaded resource
\*   "h://c/image/upload/v12/f/a.b"         one in a folder
\*   "h://c/raw/upload/v1/raw/upload/v2/a"  one whose folders repeat the pattern
\*   "h://c/raw/private/v1/a"               one without the pattern
\*   "h://c/xraw/upload/v1/a"               one without the pattern at a word boundary
MapperUrlPlain == <<"h", ":", "/", "/", "c", "/", "r", "a", "w", "/", "u", "p", "l", "o", "a", "d", "/", "v", "1", "/", "a">>
MapperUrlFolder == <<"h", ":", "/", "/", "c", "/", "i", "m", "a", "g", "e", "/", "u", "p", "l", "o", "a", "d", "/", "v", "1", "2", "/", "f", "/", "a", ".", "b">>
MapperUrlTwice == <<"h", ":", "/", "/", "c", "/", "r", "a", "w", "/", "u", "p", "l", "o", "a", "d", "/", "v", "1", "/", "r", "a", "w", "/", "u", "p", "l", "o", "a", "d", "/", "v", "2", "/", "a">>
MapperUrlPrivate == <<"h", ":", "/", "/", "c", "/", "r", "a", "w", "/", "p", "r", "i", "v", "a", "t", "e", "/", "v", "1", "/", "a">>
MapperUrlNoBoundary == <<"h", ":", "/", "/", "c", "/", "x", "r", "a", "w", "/", "u", "p", "l", "o", "a", "d", "/", "v", "1", "/", "a">>
MapperUrls == {MapperUrlPlain, MapperUrlFolder, MapperUrlTwice, MapperUrlPrivate,
               MapperUrlNoBoundary}

\* --target_parent_path: "", "p", "/p/", "p/q/", "/" and "//"
ParentPathArgs == { <<>>, <<"p">>, <<"/", "p", "/">>, <<"p", "/", "q", "/">>,
                    <<"/">>, <<"/", "/">> }

\* folder strings handed to the filter: "/a", "/a,/b", "/a, /b", "/c", "/v1,/a"
FolderArgs == { <<"/", "a">>, <<"/", "a", ",", "/", "b">>, <<"/", "a", ",", " ", "/", "b">>, <<"/", "c">>, <<"/", "v", "1", ",", "/", "a">> }

FnArgs(source_buckets, keep, parent_path) ==
    [resource_types |-> <<"r", "a", "w">>,
     source_buckets |-> source_buckets,
     keep_cloud_name_in_path |-> keep,
     target_parent_path |-> parent_path,
     resuming_migration |-> FALSE,
     max_worker |-> 1]

InitFn ==
    /\ \/ /\ pc = "call_mapper"
          /\ \E keep \in BOOLEAN, parent_path \in ParentPathArgs :
                args = FnArgs(<<>>, keep, parent_path)
          /\ \E url_list \in SeqsUpTo(MapperUrls, MaxMapLen) :
                /\ url_list # <<>>
                /\ resources = [urls |-> url_list, next_cursor |-> FALSE]
       \/ /\ pc = "call_filter"
          /\ \E source_buckets \in FolderArgs : args = FnArgs(source_buckets, FALSE, <<>>)
          /\ \E url_list \in SeqsUpTo(URLS, MaxFilterLen) :
                resources = [urls |-> url_list, next_cursor |-> FALSE]
    /\ ret = <<>>
    /\ answer = Yes
    /\ exc = "none"
    /\ s3made = FALSE
    /\ typeIdx = 0
    /\ pageNo = 0
    /\ batch_index = 0
    /\ prompts = 0
    /\ declined = FALSE
    /\ tasks = <<>>
    /\ progress = 0
    /\ pbar_n = 0
    /\ future = Unset
    /\ failed_count = 0
    /\ results = <<>>
    /\ printed = <<>>
    /\ pending = [u \in URLS |-> 0]

fnVars == <<args, answer, exc, s3made, typeIdx, pageNo, resources, batch_index,
            prompts, declined, tasks, progress, pbar_n, future, failed_count,
            results, printed, pending>>

\* source_to_target_mapper(url_list, keep_same_structure, parent_path) returns
MapperCall ==
    /\ pc = "call_mapper"
    /\ ret' = source_to_target_mapper(resources.urls, args.keep_cloud_name_in_path,
                                      args.target_parent_path)
    /\ pc' = "returned_mapper"
    /\ UNCHANGED fnVars

\* filter_urls_base_on_folder_names(source_buckets, url_list), called with the
\* folder string, returns list(set(filtered_urls)): the URLs in some order
FilterCall ==
    /\ pc = "call_filter"
    /\ LET f == filter_urls_base_on_folder_names(PyStr(args.source_buckets), resources.urls)
       IN  /\ f.raised = "none"
           /\ \E order \in Orderings(f.urls) : ret' = order
    /\ pc' = "returned_filter"
    /\ UNCHANGED fnVars

NextFn ==
    \/ MapperCall
    \/ FilterCall

SpecFn == InitFn /\ [][NextFn]_vars

\* position that follows the first match of the pattern in s, 0 without a match
FirstMatchEnd(s) ==
    LET ms == {i \in 1..Len(s) : MatchEnd(s, i) # 0}
    IN  IF ms = {} THEN 0
        ELSE MatchEnd(s, CHOOSE i \in ms : \A j \in ms : i <= j)

\* the part of s that follows the first match of the pattern
AfterFirstMatch(s) == IF FirstMatchEnd(s) = 0 THEN s ELSE Tail_(s, FirstMatchEnd(s))

EndsWith(s, t) == Len(t) <= Len(s) /\ SubSeq(s, Len(s) - Len(t) + 1, Len(s)) = t

\* C11: with structure preservation disabled, the target key of every URL is
\* the part of the URL that follows the first occurrence of a resource type
\* followed by /upload/v<digits>/ (after the parent path, when one is given).
C11_KeyFollowsFirstOccurrence ==
    (pc = "returned_mapper" /\ ~args.keep_cloud_name_in_path) =>
        \A i \in 1..Len(ret) :
            /\ ret[i][1] = resources.urls[i]
            /\ EndsWith(ret[i][2], AfterFirstMatch(ret[i][1]))
            /\ args.target_parent_path = <<>> => ret[i][2] = AfterFirstMatch(ret[i][1])


\* a URL of an uploaded resource: scheme, host, a resource type followed by
\* /upload/v<digits>/ and a public id
WellFormedUrl(u) ==
    /\ OccursAt(u, <<"h", ":", "/", "/">>, 1)
    /\ FirstMatchEnd(u) # 0
    /\ FirstMatchEnd(u) <= Len(u)

\* C12: for every well-formed URL, structure flag and parent path, the target
\* key is a relative path: not empty, no leading slash, no scheme and host, no
\* query string.
C12_KeyIsRelativePath ==
    pc = "returned_mapper" =>
        \A i \in 1..Len(ret) :
            WellFormedUrl(ret[i][1]) =>
                /\ ret[i][2] # <<>>
                /\ ret[i][2][1] # "/"
                /\ ~Contains(<<":", "/", "/">>, ret[i][2])
                /\ ~Contains(<<"?">>, ret[i][2])

\* C13: for every non-empty parent path and every URL, the target key starts
\* with the parent path trimmed of its slashes, followed by exactly one "/":
\* no leading slash and no second slash at the join.
C13_KeyStartsWithParent ==
    (pc = "returned_mapper" /\ args.target_parent_path # <<>>) =>
        LET parent == Strip(args.target_parent_path, {"/"})
        IN  \A i \in 1..Len(ret) :
                /\ OccursAt(ret[i][2], parent \o <<"/">>, 1)
                /\ ret[i][2][1] # "/"
                /\ Len(ret[i][2]) >= Len(parent) + 2 => ret[i][2][Len(parent) + 2] # "/"


\* C14: the filter, called with a folder string and a URL list, returns the
\* input URLs that contain at least one of the trimmed folder names: nothing
\* that is not in the input, nothing that matches no folder, every URL that
\* matches, and no URL twice.
C14_FilterReturnsMatchingSet ==
    pc = "returned_filter" =>
        /\ NoRepeat(ret)
        /\ \A k \in 1..Len(ret) :
              /\ \E j \in 1..Len(resources.urls) : resources.urls[j] = ret[k]
              /\ MatchesFolder(ret[k])
        /\ \A j \in 1..Len(resources.urls) :
              MatchesFolder(resources.urls[j]) => \E k \in 1..Len(ret) : ret[k] = resources.urls[j]

\* the filter returned two URLs of a list that held one of them twice, for a
\* folder string with a blank after the comma
C14_Witness ==
    /\ pc = "returned_filter"
    /\ Contains(<<",", " ">>, args.source_buckets)
    /\ Len(resources.urls) = 3
    /\ Len(ret) = 2


\* C15: the prompt is issued at most once in a run; it is issued for the
\* first page of the run that holds resources, whatever the type of that
\* page, and before anything is submitted to the executor: a run without
\* folder filter has prompted once it has started a batch.
C15_PromptOnceBeforeTransfers ==
    /\ [](/\ prompts <= 1
          /\ prompts = 0 => tasks = <<>>
          /\ (NoFilter /\ batch_index >= 1) => prompts = 1)
    /\ [][prompts' # prompts =>
            /\ prompts = 0
            /\ tasks = <<>>
            /\ resources.urls # <<>>
            /\ \A u \in URLS : pending[u] = Count(resources.urls, u)]_vars

\* the types before the current one listed no resources and the first batch of
\* the run, of a later type, has been prompted for and submitted
C15_Witness ==
    /\ pc = "wait" /\ typeIdx >= 2 /\ batch_index = 1 /\ prompts = 1
    /\ tasks # <<>>


\* C16: failures of workers do not stop the run.  The wait of a batch is left
\* for the end-of-batch report only; after the report the next page is
\* requested when the page carries a cursor and the loop over the types goes
\* on otherwise, and the for loop takes every remaining type, whatever the
\* number of workers that failed.
C16_FailuresDoNotStopRun ==
    [][/\ (pc = "wait" /\ pc' # "wait") => pc' = "tallied"
       /\ pc = "tallied" =>
             IF resources.next_cursor
             THEN pageNo' = pageNo + 1 /\ (pc' = "while" \/ exc' = "ListingError")
             ELSE pc' = "for"
       /\ (pc = "for" /\ typeIdx < Len(rs_types)) => typeIdx' = typeIdx + 1]_vars

\* the second page of a later type has been returned after a batch all of
\* whose workers failed
C16_Witness ==
    /\ pc = "while" /\ pageNo = 2 /\ typeIdx >= 2
    /\ Len(tasks) >= 2
    /\ \A i \in 1..Len(tasks) : tasks[i].failed


\* C17: no retry.  For every mapping of a batch the worker makes at most one
\* probe, one fetch and one upload, the upload after the fetch and the fetch
\* after the probe (made only when resuming), and no URL is submitted more
\* often than it was listed.
C17_NoRetry ==
    /\ \A i \in 1..Len(tasks) :
          /\ tasks[i].probes <= 1 /\ tasks[i].fetches <= 1 /\ tasks[i].puts <= 1
          /\ tasks[i].puts >= 1 => tasks[i].fetches = 1
          /\ tasks[i].fetches >= 1 => tasks[i].probes = (IF args.resuming_migration THEN 1 ELSE 0)
    /\ \A u \in URLS : pending[u] >= 0

\* a resuming run has ended in which a worker probed, fetched, failed on its
\* upload and was left at that
C17_Witness ==
    /\ pc = "done" /\ exc = "none"
    /\ \E i \in 1..Len(tasks) :
          tasks[i].failed /\ tasks[i].probes = 1 /\ tasks[i].fetches = 1 /\ tasks[i].puts = 1

\* C18: a worker whose fetch failed, by an exception or by a non-success HTTP
\* status, makes no upload call and returns failed=true with the mapping.
C18_NoUploadAfterFailedFetch ==
    \A i \in 1..Len(tasks) :
        tasks[i].body \in {"raises", "http_error"} =>
            /\ tasks[i].puts = 0
            /\ tasks[i].st = "done" => (tasks[i].failed /\ tasks[i].resp = "data")

\* C20: when all workers of a batch of N mappings have completed, the progress
\* indicator has been advanced by N in all.
C20_ProgressEqualsTotal == pc = "tallied" => pbar_n = Len(tasks)


(***************************************************************************)
(* Termination: the main thread and the pool threads keep running, and     *)
(* every call made returns or raises.                                      *)
(***************************************************************************)
\* a step of the main thread
OrchestratorStep ==
    \/ RunCloudinaryConfig
    \/ RunS3Client
    \/ MigrateStart
    \/ ForType
    \/ WhileTest
    \/ \E i \in 1..Len(tasks) : Yield(i)
    \/ Tally
    \/ NextPage

\* a step of a pool thread
WorkerStep ==
    \E i \in 1..Len(tasks) :
        WorkerStart(i) \/ WorkerHead(i) \/ WorkerGet(i) \/ WorkerPut(i)

\* the runs followed to their end: two resource types, resuming (the longest
\* worker), no folder filter, a pool of one thread or more, an operator who
\* answers yes or no
InitLive ==
    /\ Init
    /\ Len(rs_types) = 2
    /\ args.resuming_migration
    /\ args.source_buckets = <<>>
    /\ args.max_worker >= 1
    /\ answer \in {Yes, <<"n", "o">>}

SpecLive == InitLive /\ [][Next]_vars /\ WF_vars(OrchestratorStep) /\ WF_vars(WorkerStep)

\* C19: with finitely many pages per type and calls that return or raise,
\* under fair scheduling of the main thread and the pool threads the run
\* eventually returns, whether the operator confirms or declines and whether
\* or not items fail.
C19_RunTerminates == <>(pc = "done")

\* a confirmed run has returned after its last batch, in which a worker failed
C19_Witness ==
    /\ pc = "done" /\ exc = "none" /\ ~declined
    /\ typeIdx = Len(rs_types)
    /\ tasks # <<>> /\ AllCompleted(tasks)
    /\ Failed(tasks) # {}


====
